---- MODULE Spec2Model ----
(***************************************************************************)
(* A model of the HTML cheatsheet extractor (src/dataset_utils.py) and of  *)
(* the lookup-based responder (src/llm_demo.py).                           *)
(*                                                                         *)
(* A Python str is a sequence of one-character strings.  None is the empty *)
(* tuple and a present optional value x is the one-element tuple <<x>>.    *)
(* A dict is the sequence of its <<key, value>> items in insertion order.  *)
(***************************************************************************)
EXTENDS Integers, Sequences, FiniteSets, TLC

VARIABLES
    raw_lines,           \* load_html_tag_dataset: the lines of the dataset file
    idx,                 \* load_html_tag_dataset: lines consumed by the for loop
    current_tag,         \* load_html_tag_dataset: pending key, None or <<line>>
    description_lines,   \* load_html_tag_dataset: pending description buffer
    pairs,               \* load_html_tag_dataset: the records emitted so far
    tag_to_description,  \* LocalHTMLTagLLM.tag_to_description
    prompts,             \* main: the prompts chosen for the demo
    outputs,             \* run_dataset_demo: the completions printed so far
    prompt,              \* generate: the query
    text,                \* _trim: the text argument
    max_length,          \* generate / _trim: the max_length argument
    result,              \* generate / _trim: None or <<returned string>>
    pc                   \* position of the running program

vars == <<raw_lines, idx, current_tag, description_lines, pairs,
          tag_to_description, prompts, outputs, prompt, text, max_length,
          result, pc>>

None == <<>>

Some(x) == <<x>>

(***************************************************************************)
(* Bounds of the model.                                                    *)
(***************************************************************************)
MaxLines == 4

(***************************************************************************)
(* Characters.                                                             *)
(***************************************************************************)
\* The whitespace str.strip() and str.split() remove that a line can hold.
Whitespace == {" ", "\t"}

IsSpace(c) == c \in Whitespace

Min(S) == CHOOSE x \in S : \A y \in S : x <= y

Max(S) == CHOOSE x \in S : \A y \in S : x >= y

(***************************************************************************)
(* str methods used by the source.                                         *)
(***************************************************************************)
RECURSIVE lstrip(_)
lstrip(s) == IF s # <<>> /\ IsSpace(Head(s)) THEN lstrip(Tail(s)) ELSE s

RECURSIVE rstrip(_)
rstrip(s) ==
    IF s # <<>> /\ IsSpace(s[Len(s)]) THEN rstrip(SubSeq(s, 1, Len(s) - 1)) ELSE s

strip(s) == rstrip(lstrip(s))

\* str.split() without arguments: the maximal runs of non-whitespace.
RECURSIVE SplitAcc(_, _, _)
SplitAcc(s, word, acc) ==
    IF s = <<>>
    THEN IF word = <<>> THEN acc ELSE Append(acc, word)
    ELSE IF IsSpace(Head(s))
         THEN SplitAcc(Tail(s), <<>>, IF word = <<>> THEN acc ELSE Append(acc, word))
         ELSE SplitAcc(Tail(s), Append(word, Head(s)), acc)

split(s) == SplitAcc(s, <<>>, <<>>)

\* sep.join(parts)
RECURSIVE join(_, _)
join(sep, parts) ==
    IF parts = <<>> THEN <<>>
    ELSE IF Len(parts) = 1 THEN parts[1]
    ELSE parts[1] \o sep \o join(sep, Tail(parts))

(***************************************************************************)
(* _TAG_PATTERN = re.compile(r"<[^>]+>")                                   *)
(***************************************************************************)
\* The end of the match of <[^>]+> that starts at position i, or 0.  The
\* greedy [^>]+ runs to the first ">" after i and needs one character.
TagMatchEnd(s, i) ==
    IF s[i] # "<" THEN 0
    ELSE LET closers == {j \in (i + 1)..Len(s) : s[j] = ">"}
         IN  IF closers = {} THEN 0
             ELSE IF Min(closers) > i + 1 THEN Min(closers) ELSE 0

\* _TAG_PATTERN.search(s): None, or <<start, end>> of the leftmost match.
_TAG_PATTERN_search(s) ==
    LET starts == {i \in 1..Len(s) : TagMatchEnd(s, i) # 0}
    IN  IF starts = {} THEN None
        ELSE <<Min(starts), TagMatchEnd(s, Min(starts))>>

_looks_like_tag_line(line) ==
    IF line = <<>> THEN FALSE ELSE _TAG_PATTERN_search(line) # None

(***************************************************************************)
(* load_html_tag_dataset                                                   *)
(***************************************************************************)
StripAll(parts) == [i \in 1..Len(parts) |-> strip(parts[i])]

\* A slip: the second, whitespace-collapsing join of flush_current is left out.
FlushDescriptionNoCollapse(parts) == join(<<" ">>, StripAll(parts))

\* The description flush_current builds from the buffered lines.
FlushDescription(parts) == join(<<" ">>, split(join(<<" ">>, StripAll(parts))))

\* A slip: flush_current emits whenever a key is pending.
FlushPairsAnyKey(tag, parts, ps) ==
    IF tag # None /\ tag[1] # <<>>
    THEN Append(ps, <<tag[1], FlushDescription(parts)>>)
    ELSE ps

\* A slip: the buffered lines are joined without a separator.
FlushPairsGlued(tag, parts, ps) ==
    IF tag # None /\ tag[1] # <<>> /\ parts # <<>>
    THEN Append(ps, <<tag[1], join(<<" ">>, split(join(<<>>, StripAll(parts))))>>)
    ELSE ps

\* The records after flush_current.
FlushPairs(tag, parts, ps) ==
    IF tag # None /\ tag[1] # <<>> /\ parts # <<>>
    THEN Append(ps, <<tag[1], FlushDescription(parts)>>)
    ELSE ps

Line == strip(raw_lines[idx + 1])

InLoop == pc = "load" /\ idx < Len(raw_lines)

DemoIdle == UNCHANGED <<raw_lines, tag_to_description, prompts, outputs, prompt,
                        text, max_length, result>>

\* if not line: flush_current(); continue
LoopBlank ==
    /\ InLoop
    /\ Line = <<>>
    /\ pairs' = FlushPairs(current_tag, description_lines, pairs)
    /\ current_tag' = None
    /\ description_lines' = <<>>
    /\ idx' = idx + 1
    /\ UNCHANGED pc
    /\ DemoIdle

\* if _looks_like_tag_line(line): flush_current(); current_tag = line; continue
LoopTag ==
    /\ InLoop
    /\ Line # <<>>
    /\ _looks_like_tag_line(Line)
    /\ pairs' = FlushPairs(current_tag, description_lines, pairs)
    /\ current_tag' = Some(Line)
    /\ description_lines' = <<>>
    /\ idx' = idx + 1
    /\ UNCHANGED pc
    /\ DemoIdle

\* A slip: the guard on current_tag is missing and the line is buffered.
LoopSkipBuffers ==
    /\ InLoop
    /\ Line # <<>>
    /\ ~_looks_like_tag_line(Line)
    /\ current_tag = None
    /\ description_lines' = Append(description_lines, Line)
    /\ idx' = idx + 1
    /\ UNCHANGED <<current_tag, pairs, pc>>
    /\ DemoIdle

\* if current_tag is None: continue
LoopSkip ==
    /\ InLoop
    /\ Line # <<>>
    /\ ~_looks_like_tag_line(Line)
    /\ current_tag = None
    /\ idx' = idx + 1
    /\ UNCHANGED <<current_tag, description_lines, pairs, pc>>
    /\ DemoIdle

\* description_lines.append(line)
LoopAppend ==
    /\ InLoop
    /\ Line # <<>>
    /\ ~_looks_like_tag_line(Line)
    /\ current_tag # None
    /\ description_lines' = Append(description_lines, Line)
    /\ idx' = idx + 1
    /\ UNCHANGED <<current_tag, pairs, pc>>
    /\ DemoIdle

\* After the loop: flush_current(); return pairs
LoadReturn ==
    /\ pc = "load"
    /\ idx = Len(raw_lines)
    /\ pairs' = FlushPairs(current_tag, description_lines, pairs)
    /\ current_tag' = None
    /\ description_lines' = <<>>
    /\ pc' = "loaded"
    /\ UNCHANGED idx
    /\ DemoIdle

(***************************************************************************)
(* Inputs of the extractor.                                                *)
(***************************************************************************)
LinePool ==
    { <<>>,
      <<" ", "\t">>,
      <<"<", "a", ">">>,
      <<" ", "<", "h", "r", ">", " ">>,
      <<"<", "a", ">", " ", "<", "/", "a", ">">>,
      <<"x">>,
      <<" ", "x", " ", "\t", "y", " ">>,
      <<"<", ">">> }

RECURSIVE SeqsUpTo(_, _)
SeqsUpTo(S, n) ==
    IF n = 0 THEN {<<>>}
    ELSE LET shorter == SeqsUpTo(S, n - 1)
         IN  shorter \cup {Append(s, x) : s \in {t \in shorter : Len(t) = n - 1}, x \in S}

(***************************************************************************)
(* Characters of the responder.                                            *)
(***************************************************************************)
UpperCase ==
    <<"A", "B", "C", "D", "E", "F", "G", "H", "I", "J", "K", "L", "M", "N",
      "O", "P", "Q", "R", "S", "T", "U", "V", "W", "X", "Y", "Z">>

LowerCase ==
    <<"a", "b", "c", "d", "e", "f", "g", "h", "i", "j", "k", "l", "m", "n",
      "o", "p", "q", "r", "s", "t", "u", "v", "w", "x", "y", "z">>

Digits == {"0", "1", "2", "3", "4", "5", "6", "7", "8", "9"}

Range(f) == {f[i] : i \in DOMAIN f}

\* \w of the re module.
IsWordChar(c) == c \in Range(UpperCase) \cup Range(LowerCase) \cup Digits \cup {"_"}

lower_char(c) ==
    IF c \in Range(UpperCase)
    THEN LowerCase[CHOOSE i \in DOMAIN UpperCase : UpperCase[i] = c]
    ELSE c

\* str.lower()
lower(s) == [i \in 1..Len(s) |-> lower_char(s[i])]

\* str.strip(chars)
RECURSIVE strip_chars(_, _)
strip_chars(s, chars) ==
    IF s # <<>> /\ Head(s) \in chars THEN strip_chars(Tail(s), chars)
    ELSE IF s # <<>> /\ s[Len(s)] \in chars
         THEN strip_chars(SubSeq(s, 1, Len(s) - 1), chars)
         ELSE s

\* \b between positions p and p + 1 of s (p = 0: the start, p = Len(s): the end).
WordBoundary(s, p) ==
    (p >= 1 /\ IsWordChar(s[p])) # (p < Len(s) /\ IsWordChar(s[p + 1]))

\* re.search(rf"\b{re.escape(plain)}\b", s)
whole_word_search(plain, s) ==
    \E p \in 0..(Len(s) - Len(plain)) :
        /\ SubSeq(s, p + 1, p + Len(plain)) = plain
        /\ WordBoundary(s, p)
        /\ WordBoundary(s, p + Len(plain))

(***************************************************************************)
(* LocalHTMLTagLLM                                                         *)
(***************************************************************************)
\* The literal appended by _trim: in the source file it is the three
\* characters U+00E2, U+20AC, U+00A6.
TRIM_SUFFIX == <<"U+00E2", "U+20AC", "U+00A6">>

FALLBACK_TEXT ==
    <<"I", "'", "m", " ", "a", " ", "t", "i", "n", "y", " ", "i", "n", "-",
      "r", "e", "p", "o", " ", "l", "a", "n", "g", "u", "a", "g", "e", " ",
      "m", "o", "d", "e", "l", " ", "t", "h", "a", "t", " ", "s", "p", "e",
      "c", "i", "a", "l", "i", "s", "e", "s", " ", "i", "n", " ", "H", "T",
      "M", "L", " ", "e", "l", "e", "m", "e", "n", "t", "s", ",", " ", "b",
      "u", "t", " ", "I", " ", "d", "o", "n", "'", "t", " ", "r", "e", "c",
      "o", "g", "n", "i", "s", "e", " ", "t", "h", "a", "t", " ", "p", "r",
      "o", "m", "p", "t", " ", "y", "e", "t", ".", " ", "T", "r", "y", " ",
      "a", "s", "k", "i", "n", "g", " ", "a", "b", "o", "u", "t", " ", "a",
      " ", "s", "p", "e", "c", "i", "f", "i", "c", " ", "t", "a", "g", " ",
      "l", "i", "k", "e", " ", "<", "a", ">", " ", "o", "r", " ", "<", "s",
      "e", "c", "t", "i", "o", "n", ">", ".">>

\* LocalHTMLTagLLM._trim
_trim(txt, limit) ==
    IF limit <= 0 THEN <<>>
    ELSE IF Len(txt) <= limit THEN txt
    ELSE rstrip(SubSeq(txt, 1, limit - 1)) \o TRIM_SUFFIX

\* LocalHTMLTagLLM._extract_tag
_extract_tag(query) ==
    LET match == _TAG_PATTERN_search(query)
    IN  IF match # None THEN Some(SubSeq(query, match[1], match[2])) ELSE None

\* key in d
dict_has(d, key) == \E i \in 1..Len(d) : d[i][1] = key

\* d[key]
dict_get(d, key) == d[CHOOSE i \in 1..Len(d) : d[i][1] = key][2]

\* d[key] = value
dict_set(d, key, value) ==
    IF dict_has(d, key)
    THEN [i \in 1..Len(d) |-> IF d[i][1] = key THEN <<key, value>> ELSE d[i]]
    ELSE Append(d, <<key, value>>)

\* The items of the knowledge base the fuzzy loop of generate returns on.
FuzzyHits(kb, query) ==
    LET lowered == lower(query)
    IN  {i \in 1..Len(kb) :
            LET plain == lower(strip_chars(kb[i][1], {"<", ">"}))
            IN  Len(plain) > 1 /\ whole_word_search(plain, lowered)}

\* A slip: the fuzzy loop runs before the exact lookup.
generate_fuzzy_first(kb, query, limit) ==
    LET tag == _extract_tag(query)
        hits == FuzzyHits(kb, query)
    IN  IF hits # {} THEN _trim(kb[Min(hits)][2], limit)
        ELSE IF tag # None /\ tag[1] # <<>> /\ dict_has(kb, tag[1])
        THEN _trim(dict_get(kb, tag[1]), limit)
        ELSE _trim(FALLBACK_TEXT, limit)

\* A slip: the fuzzy loop searches for the name as a plain substring.
generate_substring(kb, query, limit) ==
    LET tag == _extract_tag(query)
        lowered == lower(query)
        hits == {i \in 1..Len(kb) :
                    LET plain == lower(strip_chars(kb[i][1], {"<", ">"}))
                    IN  /\ Len(plain) > 1
                        /\ \E p \in 0..(Len(lowered) - Len(plain)) :
                               SubSeq(lowered, p + 1, p + Len(plain)) = plain}
    IN  IF tag # None /\ tag[1] # <<>> /\ dict_has(kb, tag[1])
        THEN _trim(dict_get(kb, tag[1]), limit)
        ELSE IF hits # {} THEN _trim(kb[Min(hits)][2], limit)
        ELSE _trim(FALLBACK_TEXT, limit)

\* A slip: single-character names are not skipped by the fuzzy loop.
generate_short_names(kb, query, limit) ==
    LET tag == _extract_tag(query)
        lowered == lower(query)
        hits == {i \in 1..Len(kb) :
                    whole_word_search(lower(strip_chars(kb[i][1], {"<", ">"})), lowered)}
    IN  IF tag # None /\ tag[1] # <<>> /\ dict_has(kb, tag[1])
        THEN _trim(dict_get(kb, tag[1]), limit)
        ELSE IF hits # {} THEN _trim(kb[Min(hits)][2], limit)
        ELSE _trim(FALLBACK_TEXT, limit)

\* LocalHTMLTagLLM.generate
generate(kb, query, limit) ==
    LET tag == _extract_tag(query)
        hits == FuzzyHits(kb, query)
    IN  IF tag # None /\ tag[1] # <<>> /\ dict_has(kb, tag[1])
        THEN _trim(dict_get(kb, tag[1]), limit)
        ELSE IF hits # {} THEN _trim(kb[Min(hits)][2], limit)
        ELSE _trim(FALLBACK_TEXT, limit)

(***************************************************************************)
(* build_prompt_completion_pairs, choose_prompts, create_generator, main   *)
(***************************************************************************)
DEFAULT_INSTRUCTION ==
    <<"D", "e", "s", "c", "r", "i", "b", "e", " ", "t", "h", "e", " ", "H",
      "T", "M", "L", " ", "e", "l", "e", "m", "e", "n", "t">>

\* The character U+0060 of the prompt template.
BACKTICK == "U+0060"

SHOWCASED == 3

build_prompt_completion_pairs(ps) ==
    [i \in 1..Len(ps) |->
        [prompt |-> DEFAULT_INSTRUCTION \o <<" ", BACKTICK>> \o ps[i][1] \o <<BACKTICK, ".">>,
         completion |-> <<" ">> \o strip(ps[i][2])]]

choose_prompts(prompt_completion) ==
    [i \in 1..Min({SHOWCASED, Len(prompt_completion)}) |-> prompt_completion[i].prompt]

\* A slip: the first record of a key wins.
RECURSIVE dict_from_pairs_first_wins(_, _)
dict_from_pairs_first_wins(ps, d) ==
    IF ps = <<>> THEN d
    ELSE dict_from_pairs_first_wins(
             Tail(ps),
             IF dict_has(d, ps[1][1]) THEN d ELSE Append(d, <<ps[1][1], ps[1][2]>>))

\* {tag: description for tag, description in pairs}
RECURSIVE dict_from_pairs(_, _)
dict_from_pairs(ps, d) ==
    IF ps = <<>> THEN d
    ELSE dict_from_pairs(Tail(ps), dict_set(d, ps[1][1], ps[1][2]))

\* The only persona create_generator accepts.
PERSONA ==
    <<"h", "t", "m", "l", "-", "t", "a", "g", "-", "l", "l", "m">>

\* The values of --model tried: the persona, the persona in another case
\* (create_generator lowercases it) and an unknown one.
Models ==
    { PERSONA,
      <<"H", "T", "M", "L", "-", "T", "a", "g", "-", "L", "L", "M">>,
      <<"g", "p", "t", "2">> }

KnownModel(model) == lower(model) = PERSONA

LoadIdle == UNCHANGED <<raw_lines, idx, current_tag, description_lines, pairs>>

\* main: generator = create_generator(args.model, pairs)
CreateGenerator ==
    /\ pc = "loaded"
    /\ \E model \in Models :
        IF KnownModel(model)
        THEN /\ tag_to_description' = dict_from_pairs(pairs, <<>>)
             /\ pc' = "generator"
        ELSE /\ UNCHANGED tag_to_description
             /\ pc' = "exit"
    /\ LoadIdle
    /\ UNCHANGED <<prompts, outputs, prompt, text, max_length, result>>

\* main: prompts = choose_prompts(build_prompt_completion_pairs(pairs))
ChoosePrompts ==
    /\ pc = "generator"
    /\ prompts' = choose_prompts(build_prompt_completion_pairs(pairs))
    /\ pc' = "demo"
    /\ LoadIdle
    /\ UNCHANGED <<tag_to_description, outputs, prompt, text, max_length, result>>

\* run_dataset_demo: one iteration of the loop over the prompts.  (With
\* --interactive main reads its prompts from the terminal instead; each is
\* answered by the same generate_text, which SpecRespond calls directly.)
RunDemoPrompt ==
    /\ pc = "demo"
    /\ Len(outputs) < Len(prompts)
    /\ outputs' = Append(outputs,
                         generate(tag_to_description, prompts[Len(outputs) + 1], max_length))
    /\ UNCHANGED pc
    /\ LoadIdle
    /\ UNCHANGED <<tag_to_description, prompts, prompt, text, max_length, result>>

\* run_dataset_demo returns and main ends
DemoReturn ==
    /\ pc = "demo"
    /\ Len(outputs) = Len(prompts)
    /\ pc' = "done"
    /\ LoadIdle
    /\ UNCHANGED <<tag_to_description, prompts, outputs, prompt, text, max_length, result>>

\* The values of --max-length tried: none, a few characters, the default.
DemoMaxLengths == {0, 3, 80}

Init ==
    /\ raw_lines \in SeqsUpTo(LinePool, MaxLines)
    /\ idx = 0
    /\ current_tag = None
    /\ description_lines = <<>>
    /\ pairs = <<>>
    /\ tag_to_description = <<>>
    /\ prompts = <<>>
    /\ outputs = <<>>
    /\ prompt = <<>>
    /\ text = <<>>
    /\ max_length \in DemoMaxLengths
    /\ result = None
    /\ pc = "load"

Next ==
    \/ LoopBlank
    \/ LoopTag
    \/ LoopSkip
    \/ LoopAppend
    \/ LoadReturn
    \/ CreateGenerator
    \/ ChoosePrompts
    \/ RunDemoPrompt
    \/ DemoReturn

Spec == Init /\ [][Next]_vars

(***************************************************************************)
(* Calls of generate and of _trim on inputs of their own.                  *)
(***************************************************************************)
MaxQueryLen == 4

MaxKeys == 2

MaxTextLen == 4

QueryAlphabet == {"a", "B", "<", ">"}

KeyPool ==
    { <<"<", "a", "b", ">">>,
      <<"<", "a", "B", ">">>,
      <<"<", "a", ">">> }

DescriptionPool == { <<"d", "1">>, <<"d", " ", "2", "2">> }

\* The dicts of at most n items over the key and description pools.
RECURSIVE KnowledgeBases(_)
KnowledgeBases(n) ==
    IF n = 0 THEN {<<>>}
    ELSE LET smaller == KnowledgeBases(n - 1)
         IN  smaller \cup UNION {
                 {Append(kb, <<key, description>>) :
                     kb \in {d \in smaller : Len(d) = n - 1 /\ ~dict_has(d, key)},
                     description \in DescriptionPool} : key \in KeyPool}

LinkKB ==
    <<<<<<"<", "a", ">">>,
       <<"D", "e", "f", "i", "n", "e", "s", " ", "a", " ", "h", "y", "p",
         "e", "r", "l", "i", "n", "k", ".">>>>>>

WidgetQuery ==
    <<"W", "h", "a", "t", " ", "i", "s", " ", "a", " ", "w", "i", "d", "g",
      "e", "t", "?">>

LinkQuery ==
    <<"D", "e", "s", "c", "r", "i", "b", "e", " ", "t", "h", "e", " ", "H",
      "T", "M", "L", " ", "e", "l", "e", "m", "e", "n", "t", " ", BACKTICK,
      "<", "a", ">", BACKTICK, ".">>

FooKB ==
    << <<<<"<", "f", "o", "o", ">">>, <<"d", "1">>>>,
       <<<<"<", "f", "o", "o", "b", "a", "r", ">">>, <<"d", "2">>>> >>

FooQuery ==
    <<"t", "e", "l", "l", " ", "m", "e", " ", "a", "b", "o", "u", "t", " ",
      "f", "o", "o">>

FoobarQuery ==
    <<"t", "e", "l", "l", " ", "m", "e", " ", "a", "b", "o", "u", "t", " ",
      "f", "o", "o", "b", "a", "r">>

HelloWorld ==
    <<"H", "e", "l", "l", "o", " ", "W", "o", "r", "l", "d">>

RespondMaxLengths == {0, 3, 91}

ExampleMaxLengths == {-1, 0, 5, 50, 80, 90, 91, 161, 162, 163}

MainIdle ==
    /\ raw_lines = <<>>
    /\ idx = 0
    /\ current_tag = None
    /\ description_lines = <<>>
    /\ pairs = <<>>
    /\ prompts = <<>>
    /\ outputs = <<>>

InitRespond ==
    /\ MainIdle
    /\ \/ /\ tag_to_description \in KnowledgeBases(MaxKeys)
          /\ prompt \in SeqsUpTo(QueryAlphabet, MaxQueryLen)
          /\ max_length \in RespondMaxLengths
       \/ /\ tag_to_description = LinkKB
          /\ prompt \in {WidgetQuery, LinkQuery, <<>>}
          /\ max_length \in ExampleMaxLengths
       \/ /\ tag_to_description = FooKB
          /\ prompt \in {FooQuery, FoobarQuery}
          /\ max_length \in ExampleMaxLengths
    /\ text = <<>>
    /\ result = None
    /\ pc = "generate"

\* generate_text(generator, prompt, max_length)
Generate ==
    /\ pc = "generate"
    /\ result' = Some(generate(tag_to_description, prompt, max_length))
    /\ pc' = "returned"
    /\ UNCHANGED <<raw_lines, idx, current_tag, description_lines, pairs,
                   tag_to_description, prompts, outputs, prompt, text, max_length>>

NextRespond == Generate

SpecRespond == InitRespond /\ [][NextRespond]_vars

TrimAlphabet == {"x", " ", "\t"}

InitTrim ==
    /\ MainIdle
    /\ tag_to_description = <<>>
    /\ prompt = <<>>
    /\ \/ /\ text \in SeqsUpTo(TrimAlphabet, MaxTextLen)
          /\ max_length \in -1..(MaxTextLen + 1)
       \/ /\ text = HelloWorld
          /\ max_length \in ExampleMaxLengths
    /\ result = None
    /\ pc = "trim"

\* A call of LocalHTMLTagLLM._trim(text, max_length)
Trim ==
    /\ pc = "trim"
    /\ result' = Some(_trim(text, max_length))
    /\ pc' = "trimmed"
    /\ UNCHANGED <<raw_lines, idx, current_tag, description_lines, pairs,
                   tag_to_description, prompts, outputs, prompt, text, max_length>>

NextTrim == Trim

SpecTrim == InitTrim /\ [][NextTrim]_vars

(***************************************************************************)
(* The extractor's contract, stated on the input and not on the loop.      *)
(***************************************************************************)
NumLines == Len(raw_lines)

\* A declaration token: "<", one or more characters other than ">", ">".
HasToken(s) ==
    \E i \in 1..Len(s) : \E j \in (i + 2)..Len(s) :
        /\ s[i] = "<"
        /\ s[j] = ">"
        /\ \A k \in (i + 1)..(j - 1) : s[k] # ">"

IsBlankLine(i) == \A k \in 1..Len(raw_lines[i]) : IsSpace(raw_lines[i][k])

IsKeyLine(i) == HasToken(raw_lines[i])

IsTextLine(i) == ~IsBlankLine(i) /\ ~IsKeyLine(i)

Trimmed(i) == strip(raw_lines[i])

\* The key lines that are directly followed by description text.
RecordStarts == {k \in 1..(NumLines - 1) : IsKeyLine(k) /\ IsTextLine(k + 1)}

\* The last line of the description span that follows key line k.
SpanEnd(k) == Max({m \in (k + 1)..NumLines : \A j \in (k + 1)..m : IsTextLine(j)})

\* Every whitespace run of s replaced by one space.
RECURSIVE CollapseRuns(_, _)
CollapseRuns(s, afterSpace) ==
    IF s = <<>> THEN <<>>
    ELSE IF IsSpace(Head(s))
         THEN (IF afterSpace THEN <<>> ELSE <<" ">>) \o CollapseRuns(Tail(s), TRUE)
         ELSE <<Head(s)>> \o CollapseRuns(Tail(s), FALSE)

\* The trimmed lines from..to, in input order, with one space between them.
RECURSIVE SpanText(_, _)
SpanText(from, to) ==
    IF from > to THEN <<>>
    ELSE IF from = to THEN Trimmed(from)
    ELSE Trimmed(from) \o <<" ">> \o SpanText(from + 1, to)

ExpectedDescription(k) == CollapseRuns(SpanText(k + 1, SpanEnd(k)), FALSE)

RECURSIVE ExpectedRecords(_)
ExpectedRecords(k) ==
    IF k > NumLines THEN <<>>
    ELSE IF k \in RecordStarts
         THEN <<<<Trimmed(k), ExpectedDescription(k)>>>> \o ExpectedRecords(k + 1)
         ELSE ExpectedRecords(k + 1)

Loaded == pc # "load"

\* C1: every emitted record has a non-empty key and a non-empty description
\* without leading or trailing whitespace and without a run of two or more
\* whitespace characters (each whitespace character in it is one space).
C1_RecordsNormalised ==
    \A i \in 1..Len(pairs) :
        LET key == pairs[i][1]
            description == pairs[i][2]
            n == Len(description)
        IN  /\ key # <<>>
            /\ description # <<>>
            /\ ~IsSpace(description[1])
            /\ ~IsSpace(description[n])
            /\ \A k \in 1..(n - 1) : ~(IsSpace(description[k]) /\ IsSpace(description[k + 1]))
            /\ \A k \in 1..n : IsSpace(description[k]) => description[k] = " "

\* A record whose key line was padded and whose description line held a run
\* of a space and a tab has been emitted.
C1_Witness ==
    /\ Loaded
    /\ \E i \in 1..Len(pairs) :
        /\ pairs[i][1] = <<"<", "h", "r", ">">>
        /\ pairs[i][2] = <<"x", " ", "y">>
    /\ \E k \in 1..NumLines : raw_lines[k] = <<" ", "x", " ", "\t", "y", " ">>

\* C2: once the input is read, the records are exactly, in input order, one
\* per key line that is directly followed by text, and each description is the
\* trimmed lines of the span after the key line (up to the next key line,
\* blank line or end of input) joined by single spaces with every whitespace
\* run collapsed to one space.
C2_DescriptionIsSpan == Loaded => pairs = ExpectedRecords(1)

\* A record was built from a span of two lines, and a text line outside every
\* span was read as well.
C2_Witness ==
    /\ Loaded
    /\ \E k \in RecordStarts : SpanEnd(k) = k + 2
    /\ \E j \in 1..NumLines :
        IsTextLine(j) /\ \A k \in RecordStarts : j < k \/ j > SpanEnd(k)
    /\ Len(pairs) >= 1

\* The records keyed on key.
RecordsKeyed(key) == {i \in 1..Len(pairs) : pairs[i][1] = key}

\* The key lines reading key that are directly followed by description text.
DescribedKeyLines(key) == {k \in RecordStarts : Trimmed(k) = key}

\* C3: a step taken while the description buffer is empty emits no record,
\* so a key line followed by a blank line, a key line or the end of input
\* yields nothing; and once the input is read each key has as many records
\* as it has key lines directly followed by text (none for a key line
\* without description, one at most for a run of adjacent key lines).
C3_UndescribedKeyDropped ==
    /\ [][(pc = "load" /\ description_lines = <<>>) => pairs' = pairs]_vars
    /\ [](Loaded => \A k \in 1..NumLines :
              IsKeyLine(k) =>
                  Cardinality(RecordsKeyed(Trimmed(k)))
                      = Cardinality(DescribedKeyLines(Trimmed(k))))

\* Two adjacent key lines were read; the second is described and has its
\* record, the first has none.
C3_Witness ==
    /\ Loaded
    /\ \E k \in 1..(NumLines - 2) :
        /\ IsKeyLine(k) /\ IsKeyLine(k + 1) /\ IsTextLine(k + 2)
        /\ Trimmed(k) # Trimmed(k + 1)
        /\ RecordsKeyed(Trimmed(k)) = {}
        /\ RecordsKeyed(Trimmed(k + 1)) # {}

\* C9: reading a non-blank line without declaration token while no key is
\* pending changes neither the pending key, the buffer nor the records.
C9_FreeTextIsNoOp ==
    [][(InLoop /\ current_tag = None /\ ~IsBlankLine(idx + 1) /\ ~IsKeyLine(idx + 1))
          => UNCHANGED <<current_tag, description_lines, pairs>>]_vars

\* Text between a blank line and the next key line has just been read, after
\* a record was emitted.
C9_Witness ==
    /\ pc = "load"
    /\ idx >= 4
    /\ IsKeyLine(idx - 3) /\ IsTextLine(idx - 2) /\ IsBlankLine(idx - 1) /\ IsTextLine(idx)
    /\ current_tag = None
    /\ description_lines = <<>>
    /\ Len(pairs) = 1

(***************************************************************************)
(* The round trip of the demo: extractor, generator, generated prompts.    *)
(***************************************************************************)
GeneratorReady == pc \in {"generator", "demo", "done"}

\* The prompt build_prompt_completion_pairs generates for a key.
PromptFor(key) == build_prompt_completion_pairs(<<<<key, <<>>>>>>)[1].prompt

\* The answer of the generator to the prompt generated for a key.
AnswerFor(key) == generate(tag_to_description, PromptFor(key), max_length)

\* The key is one declaration token and nothing else.
IsSingleToken(key) ==
    /\ Len(key) >= 3
    /\ key[1] = "<"
    /\ key[Len(key)] = ">"
    /\ \A k \in 2..(Len(key) - 1) : key[k] # ">"

\* The description of the last record keyed on key.
LastDescription(key) == pairs[Max(RecordsKeyed(key))][2]

\* C10 as stated: the prompt generated for any record's key is answered with
\* that record's description, passed through the length policy.
C10_Original ==
    GeneratorReady =>
        \A i \in 1..Len(pairs) : AnswerFor(pairs[i][1]) = _trim(pairs[i][2], max_length)

\* C10 as amended: for every record whose key is exactly one declaration
\* token, the prompt generated for the key is answered with the description
\* of the last record that has this key, passed through the length policy;
\* the demo prints that answer for the records it showcases.
C10_RoundTripSingleToken ==
    GeneratorReady =>
        \A i \in 1..Len(pairs) :
            IsSingleToken(pairs[i][1]) =>
                /\ AnswerFor(pairs[i][1]) = _trim(LastDescription(pairs[i][1]), max_length)
                /\ i <= Len(outputs) =>
                       outputs[i] = _trim(LastDescription(pairs[i][1]), max_length)

\* The demo has answered the prompts of two records that share a single-token
\* key and differ in their descriptions.
C10_Witness ==
    /\ pc = "done"
    /\ max_length > 0
    /\ Len(pairs) = 2
    /\ Len(outputs) = 2
    /\ pairs[1][1] = pairs[2][1]
    /\ IsSingleToken(pairs[1][1])
    /\ _trim(pairs[1][2], max_length) # _trim(pairs[2][2], max_length)
    /\ outputs[1] = _trim(pairs[2][2], max_length)

(***************************************************************************)
(* The responder's contract, stated on the query and the knowledge base.   *)
(***************************************************************************)
Returned == pc = "returned"

\* The declaration tokens of q, each as <<first, last>> position.
Tokens(q) ==
    {ij \in (1..Len(q)) \X (1..Len(q)) :
        /\ ij[2] >= ij[1] + 2
        /\ q[ij[1]] = "<"
        /\ q[ij[2]] = ">"
        /\ \A k \in (ij[1] + 1)..(ij[2] - 1) : q[k] # ">"}

\* The first declaration token of q (Tokens(q) is not empty).
FirstToken(q) ==
    LET first == CHOOSE ij \in Tokens(q) : \A other \in Tokens(q) : ij[1] <= other[1]
    IN  SubSeq(q, first[1], first[2])

KeysOf(kb) == {kb[i][1] : i \in 1..Len(kb)}

ValueOf(kb, key) == kb[CHOOSE i \in 1..Len(kb) : kb[i][1] = key][2]

ExactHit == Tokens(prompt) # {} /\ FirstToken(prompt) \in KeysOf(tag_to_description)

IsBracket(c) == c \in {"<", ">"}

\* The key without the brackets around it.
NameOf(key) ==
    LET inner == {k \in 1..Len(key) : ~IsBracket(key[k])}
    IN  IF inner = {} THEN <<>> ELSE SubSeq(key, Min(inner), Max(inner))

\* Exactly one side of the gap after position p of s is a word character.
AtWordBoundary(s, p) ==
    LET wordBefore == IF p = 0 THEN FALSE ELSE IsWordChar(s[p])
        wordAfter == IF p = Len(s) THEN FALSE ELSE IsWordChar(s[p + 1])
    IN  wordBefore # wordAfter

OccursAsWholeWord(word, s) ==
    \E p \in 0..(Len(s) - Len(word)) :
        /\ \A k \in 1..Len(word) : s[p + k] = word[k]
        /\ AtWordBoundary(s, p)
        /\ AtWordBoundary(s, p + Len(word))

\* The items whose name is longer than one character and is a whole word of
\* the query, compared in lower case.
WholeWordKeys ==
    {i \in 1..Len(tag_to_description) :
        LET name == NameOf(tag_to_description[i][1])
        IN  Len(name) > 1 /\ OccursAsWholeWord(lower(name), lower(prompt))}

Contains(s, part) ==
    \E p \in 0..(Len(s) - Len(part)) : SubSeq(s, p + 1, p + Len(part)) = part

\* C4: if the first declaration token of the query is verbatim a key of the
\* knowledge base, generate returns that key's description passed through
\* the length policy, whatever keys fuzzy-match the query.
C4_ExactMatchWins ==
    (Returned /\ ExactHit) =>
        result = Some(_trim(ValueOf(tag_to_description, FirstToken(prompt)), max_length))

\* The exact key was answered although an earlier key with another
\* description is a whole word of the query.
C4_Witness ==
    /\ Returned
    /\ ExactHit
    /\ max_length > 0
    /\ WholeWordKeys # {}
    /\ tag_to_description[Min(WholeWordKeys)][1] # FirstToken(prompt)
    /\ result # Some(_trim(tag_to_description[Min(WholeWordKeys)][2], max_length))

\* C5: without an exact hit, generate returns (through the length policy)
\* the description of the first key in knowledge-base order whose name,
\* brackets stripped, is longer than one character and occurs in the
\* lowercased query between two word boundaries; a name that is only part of
\* a longer word does not match.  With {"<foo>": "d1", "<foobar>": "d2"} the
\* query "tell me about foo" gives "d1".
C5_FirstWholeWordKey ==
    /\ (Returned /\ ~ExactHit /\ WholeWordKeys # {}) =>
           result = Some(_trim(tag_to_description[Min(WholeWordKeys)][2], max_length))
    /\ (Returned /\ ~ExactHit /\ WholeWordKeys = {}) =>
           result = Some(_trim(FALLBACK_TEXT, max_length))
    /\ (Returned /\ tag_to_description = FooKB /\ prompt = FooQuery /\ max_length >= 2) =>
           result = Some(<<"d", "1">>)

\* "foo" is only part of the word "foobar" of the query, so the first key was
\* passed over and the second key answered.
C5_Witness ==
    /\ Returned
    /\ tag_to_description = FooKB
    /\ prompt = FoobarQuery
    /\ max_length = 80
    /\ WholeWordKeys = {2}
    /\ result = Some(<<"d", "2">>)

Marker ==
    <<"d", "o", "n", "'", "t", " ", "r", "e", "c", "o", "g", "n", "i", "s",
      "e">>

Persona ==
    <<"t", "i", "n", "y", " ", "i", "n", "-", "r", "e", "p", "o", " ", "l",
      "a", "n", "g", "u", "a", "g", "e", " ", "m", "o", "d", "e", "l">>

\* The position of the last character of the marker in the fallback text.
MarkerEnd ==
    CHOOSE e \in 1..Len(FALLBACK_TEXT) :
        e >= Len(Marker) /\ SubSeq(FALLBACK_TEXT, e - Len(Marker) + 1, e) = Marker

NoMatch == ~ExactHit /\ WholeWordKeys = {}

WidgetCall == tag_to_description = LinkKB /\ prompt = WidgetQuery /\ max_length = 50

\* C6 as stated, on its own example: respond({"<a>": "Defines a
\* hyperlink."}, "What is a widget?", 50) returns the default fallback text,
\* which contains the "don't recognise" marker.
C6_Original ==
    (Returned /\ WidgetCall) =>
        /\ NoMatch
        /\ Contains(result[1], Marker)

\* C6 as amended: a query with neither an exact nor a fuzzy match, the empty
\* query included, returns the default fallback text passed through the
\* length policy; the result contains the marker exactly when max_length is
\* greater than the position at which the marker ends in that text.  The
\* example call (max_length 50) has no match, the single-character name "a"
\* not being matched, and returns the first 49 characters of the text plus
\* the truncation suffix: the persona's introduction without the marker.
C6_FallbackThroughTrim ==
    /\ (Returned /\ NoMatch) =>
           /\ result = Some(_trim(FALLBACK_TEXT, max_length))
           /\ Contains(result[1], Marker) <=> max_length > MarkerEnd
    /\ (Returned /\ WidgetCall) =>
           /\ NoMatch
           /\ SubSeq(result[1], 1, max_length - 1) = SubSeq(FALLBACK_TEXT, 1, max_length - 1)
           /\ Contains(result[1], Persona)
           /\ ~Contains(result[1], Marker)

\* The example call has returned.
C6_Witness ==
    /\ Returned
    /\ WidgetCall
    /\ result # Some(<<>>)

(***************************************************************************)
(* The length policy.                                                      *)
(***************************************************************************)
TrimReturned == pc = "trimmed"

\* The ellipsis character U+2026.
ELLIPSIS == "U+2026"

\* C7: _trim returns the empty string when max_length <= 0, the text
\* unchanged when it is at most max_length long, and otherwise the first
\* max_length - 1 characters with trailing whitespace stripped followed by
\* exactly one ellipsis character.
C7_TrimPolicy ==
    TrimReturned =>
        result = Some(IF max_length <= 0 THEN <<>>
                      ELSE IF Len(text) <= max_length THEN text
                      ELSE rstrip(SubSeq(text, 1, max_length - 1)) \o <<ELLIPSIS>>)

\* C8: in the truncation branch the returned string is at most one character
\* longer than max_length.
C8_AtMostOneOver ==
    (TrimReturned /\ max_length > 0 /\ Len(text) > max_length) =>
        Len(result[1]) <= max_length + 1

====
